---- MODULE Spec2Model ----
(***************************************************************************)
(* IPL3 boot hand-off: stage2 (boot/loader_compat.c, flat binary loader)   *)
(* followed by stage3 (boot/cleanup.c, cleanup and jump), together with    *)
(* the three hardware engines the CPU polls: PI (cartridge bus), SP        *)
(* (coprocessor bus, RSP DMA) and SI (serial peripheral, PIF).             *)
(*                                                                         *)
(* The CPU is a program counter `pc` walking the statements of stage2 and  *)
(* stage3; every statement is one action.  Each engine is a separate       *)
(* action that completes the transfer it holds at an arbitrary moment.     *)
(* Addresses, sizes and register values are the real 32-bit numbers.       *)
(***************************************************************************)
EXTENDS Integers, Sequences, FiniteSets, TLC

\* ------------------------------------------------------------------------
\* 32-bit words
\* ------------------------------------------------------------------------
\* A 32-bit word is the pair <<upper 16 bits, lower 16 bits>>; arithmetic
\* on words is modulo 2^32, as on uint32_t.
Half == 2^16

Words == (0 .. Half - 1) \X (0 .. Half - 1)

\* the word of a number 0 .. 2^31-1 (a C int constant)
W(n) == <<n \div Half, n % Half>>

Add32(a, b) ==
    <<(a[1] + b[1] + ((a[2] + b[2]) \div Half)) % Half, (a[2] + b[2]) % Half>>

Sub32(a, b) ==
    <<(a[1] - b[1] + ((a[2] - b[2]) \div Half)) % Half, (a[2] - b[2]) % Half>>

\* unsigned a > b
Gt32(a, b) == a[1] > b[1] \/ (a[1] = b[1] /\ a[2] > b[2])

RECURSIVE BitAnd(_, _)
BitAnd(a, b) ==
    IF a = 0 \/ b = 0 THEN 0
    ELSE (a % 2) * (b % 2) + 2 * BitAnd(a \div 2, b \div 2)

RECURSIVE BitOr(_, _)
BitOr(a, b) ==
    IF a = 0 THEN b
    ELSE IF b = 0 THEN a
    ELSE (IF a % 2 = 1 \/ b % 2 = 1 THEN 1 ELSE 0) + 2 * BitOr(a \div 2, b \div 2)

And32(a, b) == <<BitAnd(a[1], b[1]), BitAnd(a[2], b[2])>>

Or32(a, b) == <<BitOr(a[1], b[1]), BitOr(a[2], b[2])>>

\* x << n and x >> n on C int constants (no overflow at the uses below)
Shl(x, n) == x * 2^n

Shr(x, n) == x \div 2^n

\* bits 0..23 of a word, as a number
Low24(w) == (w[1] % 256) * Half + w[2]

\* ------------------------------------------------------------------------
\* Program constants
\* ------------------------------------------------------------------------
LOADER_SIZE == 32 * 1024

TOTAL_RESERVED_SIZE == LOADER_SIZE

\* 0x10000008: cartridge header word holding the entry point
HDR_ENTRY_ADDR == <<4096, 8>>
\* 0x10000010: cartridge header word holding the image size
HDR_SIZE_ADDR == <<4096, 16>>
\* 0x10001000: start of the payload in cartridge space
CART_PAYLOAD == <<4096, 4096>>
\* 0x1FFFFFFF: mask turning a virtual address into a physical one
PHYS_MASK == <<8191, 65535>>
\* 0xA0000000: uncached segment base or-ed in by io_read32
KSEG1 == <<40960, 0>>
\* 0x7FC: PIF RAM offset of the command byte; 0x8: boot finished
PIF_CMD_OFFSET == 2044
PIF_CMD_BOOT_DONE == 8
\* 0xA4000000: DMEM, whose first word holds the boot flags (memory size)
BOOT_FLAGS_ADDR == <<41984, 0>>
\* 0x80000318: legacy location of the memory size
LEGACY_MEMSIZE_ADDR == <<32768, 792>>
\* 0xA4001000: IMEM, source of the reserved-region clear
IMEM_ADDR == <<41984, 4096>>
\* 0x00802000: RDRAM address above 8 MiB, source of the DMEM clear
EMPTY_RDRAM_ADDR == <<128, 8192>>
\* 0xA4000010 / 0xA4000000: DMEM destination of the clear (normal / COMPAT)
DMEM_AFTER_FLAGS == <<41984, 16>>
DMEM_START == <<41984, 0>>
\* 0x80000000: cached segment base used for the stack pointer
KSEG0 == <<32768, 0>>

\* ------------------------------------------------------------------------
\* Inputs: cartridge headers and installed memory sizes
\* ------------------------------------------------------------------------
\* 0x80000400, 0x80100000, 0x80700000, 0x807FC000 (the last lies inside the
\* top 32 KiB of an 8 MiB RDRAM)
HeaderEntries == {<<32768, 1024>>, <<32784, 0>>, <<32880, 0>>, <<32895, 49152>>}

\* 0, 4 KiB, 1 MiB, 2 MiB, 0x7F7C00 (largest size accepted at 0x80000400),
\* 0x7F7C01, 0xFFFFFFFF
HeaderSizes == {<<0, 0>>, <<0, 4096>>, <<16, 0>>, <<32, 0>>, <<127, 31744>>,
                <<127, 31745>>, <<65535, 65535>>}

\* 4 MiB and 8 MiB consoles
MemSizes == {4194304, 8388608}

\* ------------------------------------------------------------------------
\* State
\* ------------------------------------------------------------------------
VARIABLES
    compat,       \* build variant: TRUE when built with COMPAT
    hdrEntry,     \* cartridge word at 0x10000008
    hdrSize,      \* cartridge word at 0x10000010
    ramSize,      \* installed RDRAM, as stored by the earlier boot stage
    pc,           \* statement the CPU executes next
    entrypoint,   \* stage2 local, then stage3 argument
    size,         \* stage2 local
    memsize,      \* stage3 local (int)
    spReg,        \* CPU stack pointer register, <<>> while never written
    jumpTarget,   \* address the CPU jumped to, <<>> before the jump
    cacheReset,   \* TRUE once cop0_clear_cache ran
    piDramAddr, piCartAddr,        \* PI address registers
    piActive,     \* transfer the PI engine is running
    piDone,       \* sequence of transfers the PI engine completed
    spRspAddr, spDramAddr,         \* SP DMA address registers
    spActive, spPending,           \* SP DMA: running and queued transfer
    spDone,       \* sequence of transfers the SP engine completed
    siBusy,       \* SI engine has a transaction in progress
    siIntr,       \* SI completion interrupt pending
    pifCmd,       \* sequence of (offset, value) written to PIF RAM
    ram,          \* RDRAM contents: sequence of completed range writes
    dmem,         \* DMEM contents: sequence of completed range writes
    trace         \* sequence of the CPU's hardware accesses

cpuVars == <<pc, entrypoint, size, memsize, spReg, jumpTarget, cacheReset>>
piVars == <<piDramAddr, piCartAddr, piActive, piDone>>
spVars == <<spRspAddr, spDramAddr, spActive, spPending, spDone>>
siVars == <<siBusy, siIntr, pifCmd>>
memVars == <<ram, dmem>>
inputVars == <<compat, hdrEntry, hdrSize, ramSize>>
vars == <<inputVars, cpuVars, piVars, spVars, siVars, memVars, trace>>

\* ------------------------------------------------------------------------
\* Memory contents
\* ------------------------------------------------------------------------
\* A memory is the sequence of range writes [lo, hi, val] the engines have
\* completed on it; a byte holds the value of the last write covering it,
\* or the value it had before stage2 started.

RECURSIVE LastVal(_, _, _)
LastVal(ws, a, before) ==
    IF ws = <<>> THEN before
    ELSE LET w == ws[Len(ws)]
         IN  IF w.lo <= a /\ a <= w.hi THEN w.val
             ELSE LastVal(SubSeq(ws, 1, Len(ws) - 1), a, before)

\* RDRAM: arbitrary earlier content below 8 MiB, nothing above it.
RDRAM_MAX == Shl(8, 20)

RamAt(a) == IF a >= RDRAM_MAX THEN "Clear" ELSE LastVal(ram, a, "Dirty")

\* DMEM: 4096 bytes, the first 16 hold the boot flags.
DMEM_SIZE == 4096

BOOT_FLAGS_SIZE == 16

DmemAt(a) == LastVal(dmem, a, IF a < BOOT_FLAGS_SIZE THEN "Flags" ELSE "Dirty")

\* IMEM was emptied by the earlier boot stage and nothing here writes it.
ImemAt(a) == "Clear"

\* The addresses of [lo, hi] at which the content of a memory may change.
CutPoints(ws, lo, hi) ==
    {lo} \cup {ws[i].lo : i \in {j \in DOMAIN ws : lo <= ws[j].lo /\ ws[j].lo <= hi}}
         \cup {ws[i].hi + 1 : i \in {j \in DOMAIN ws : lo <= ws[j].hi + 1 /\ ws[j].hi + 1 <= hi}}

\* The set of values held by the bytes lo..hi of RDRAM / DMEM.
RamVals(lo, hi) ==
    {RamAt(a) : a \in CutPoints(ram, lo, hi) \cup (IF hi >= RDRAM_MAX /\ lo <= RDRAM_MAX THEN {RDRAM_MAX} ELSE {})}

DmemVals(lo, hi) ==
    {DmemAt(a) : a \in CutPoints(dmem, lo, hi) \cup (IF lo < BOOT_FLAGS_SIZE /\ hi >= BOOT_FLAGS_SIZE THEN {BOOT_FLAGS_SIZE} ELSE {})}

\* The value a copy of a source range delivers.
OneVal(vs) == IF Cardinality(vs) = 1 THEN CHOOSE v \in vs : TRUE ELSE "Mixed"

\* ------------------------------------------------------------------------
\* Hardware engines
\* ------------------------------------------------------------------------
NoDesc == [kind |-> "none", ram |-> W(0), peer |-> W(0), len |-> W(0)]

\* a transfer left running by the earlier boot stage
PriorDesc == [kind |-> "prior", ram |-> W(0), peer |-> W(0), len |-> W(0)]

Desc(k, r, p, l) == [kind |-> k, ram |-> r, peer |-> p, len |-> l]

\* PI_STATUS & (DMA_BUSY | IO_BUSY)
PiBusy == piActive.kind # "none"

\* *SP_DMA_FULL and *SP_DMA_BUSY
SpDmaFull == spPending.kind # "none"

SpDmaBusy == spActive.kind # "none"

\* SI_STATUS & (DMA_BUSY | IO_BUSY)
SiBusy == siBusy

\* RDRAM address registers hold 24 bits
RdramAddr(r) == Low24(r)

\* SP length word: bits 0..11 length-1 (rounded up to 8 bytes), bits 12..19
\* row count - 1
SpRowBytes(w) == (((w[2] % 4096) \div 8) + 1) * 8

SpRows(w) == ((Low24(w) \div 4096) % 256) + 1

SpBytes(w) == SpRows(w) * SpRowBytes(w)

\* bit 12 of an RSP address selects IMEM
InImem(w) == (w[2] \div 4096) % 2 = 1

\* PI length register: bits 0..23, bytes - 1
PiBytes(w) == Low24(w) + 1

\* The range a transfer writes: [space, lo, hi]
DestOf(d) ==
    IF d.kind = "pi_wr"
    THEN [space |-> "ram", lo |-> RdramAddr(d.ram), hi |-> RdramAddr(d.ram) + PiBytes(d.len) - 1]
    ELSE IF d.kind = "sp_wr"
    THEN [space |-> "ram", lo |-> RdramAddr(d.ram), hi |-> RdramAddr(d.ram) + SpBytes(d.len) - 1]
    ELSE IF d.kind = "sp_rd"
    THEN [space |-> IF InImem(d.peer) THEN "imem" ELSE "dmem",
          lo |-> d.peer[2] % 4096, hi |-> (d.peer[2] % 4096) + SpBytes(d.len) - 1]
    ELSE [space |-> "none", lo |-> 0, hi |-> -1]

\* The value a transfer writes there
ValOf(d) ==
    IF d.kind = "pi_wr" THEN "Image"
    ELSE IF d.kind = "sp_wr"
    THEN IF InImem(d.peer) THEN ImemAt(0) ELSE OneVal(DmemVals(0, DMEM_SIZE - 1))
    ELSE IF d.kind = "sp_rd"
    THEN OneVal(RamVals(RdramAddr(d.ram), RdramAddr(d.ram) + SpBytes(d.len) - 1))
    ELSE "None"

\* Memories after transfer d has completed
RamAfter(d) ==
    IF DestOf(d).space = "ram"
    THEN Append(ram, [lo |-> DestOf(d).lo, hi |-> DestOf(d).hi, val |-> ValOf(d)])
    ELSE ram

DmemAfter(d) ==
    IF DestOf(d).space = "dmem"
    THEN Append(dmem, [lo |-> DestOf(d).lo, hi |-> DestOf(d).hi, val |-> ValOf(d)])
    ELSE dmem

\* The cartridge-bus engine finishes its transfer.
PiComplete ==
    /\ PiBusy
    /\ piDone' = Append(piDone, piActive)
    /\ piActive' = NoDesc
    /\ ram' = RamAfter(piActive)
    /\ UNCHANGED <<piDramAddr, piCartAddr, dmem>>
    /\ UNCHANGED <<inputVars, cpuVars, spVars, siVars, trace>>

\* The coprocessor-bus engine finishes its running transfer and starts the
\* queued one.
SpComplete ==
    /\ SpDmaBusy
    /\ spDone' = Append(spDone, spActive)
    /\ spActive' = spPending
    /\ spPending' = NoDesc
    /\ ram' = RamAfter(spActive)
    /\ dmem' = DmemAfter(spActive)
    /\ UNCHANGED <<spRspAddr, spDramAddr>>
    /\ UNCHANGED <<inputVars, cpuVars, piVars, siVars, trace>>

\* The serial-peripheral engine finishes its transaction and raises its
\* interrupt.
SiComplete ==
    /\ siBusy
    /\ siBusy' = FALSE
    /\ siIntr' = TRUE
    /\ UNCHANGED pifCmd
    /\ UNCHANGED <<inputVars, cpuVars, piVars, spVars, memVars, trace>>

\* ------------------------------------------------------------------------
\* Initial state: entry to stage2
\* ------------------------------------------------------------------------
Init ==
    /\ compat \in BOOLEAN
    /\ hdrEntry \in HeaderEntries
    /\ hdrSize \in HeaderSizes
    /\ ramSize \in MemSizes
    /\ pc = "s2_read_header"
    /\ entrypoint = W(0)
    /\ size = W(0)
    /\ memsize = W(0)
    /\ spReg = <<>>
    /\ jumpTarget = <<>>
    /\ cacheReset = FALSE
    /\ piDramAddr = W(0)
    /\ piCartAddr = W(0)
    /\ piActive \in {NoDesc, PriorDesc}
    /\ piDone = <<>>
    /\ spRspAddr = W(0)
    /\ spDramAddr = W(0)
    /\ spActive \in {NoDesc, PriorDesc}
    /\ spPending = NoDesc
    /\ spDone = <<>>
    /\ siBusy \in BOOLEAN
    /\ siIntr = FALSE
    /\ pifCmd = <<>>
    /\ ram = <<>>
    /\ dmem = <<>>
    /\ trace = <<>>

\* ------------------------------------------------------------------------
\* CPU: helpers
\* ------------------------------------------------------------------------
Ev(o, v) == [op |-> o, val |-> v]

\* The word the cartridge bus returns for a physical address
CartWord(paddr) ==
    IF paddr = HDR_ENTRY_ADDR THEN hdrEntry
    ELSE IF paddr = HDR_SIZE_ADDR THEN hdrSize
    ELSE W(0)

io_read32(vaddrx) == CartWord(And32(Or32(vaddrx, KSEG1), PHYS_MASK))

\* ClampSize with the reserved region left out of the bound
ClampSize_NoReserve(entry, sz) ==
    IF sz = W(0) \/ Gt32(sz, Sub32(W(Shl(8, 20)), And32(entry, PHYS_MASK)))
    THEN W(Shl(1, 20))
    ELSE sz

\* ClampSize with the bound compared as a signed number: a bound with the
\* top bit set is below every size
ClampSize_Signed(entry, sz) ==
    IF \/ sz = W(0)
       \/ Sub32(Sub32(W(Shl(8, 20)), And32(entry, PHYS_MASK)), W(TOTAL_RESERVED_SIZE))[1] >= 2^15
       \/ Gt32(sz, Sub32(Sub32(W(Shl(8, 20)), And32(entry, PHYS_MASK)),
                          W(TOTAL_RESERVED_SIZE)))
    THEN W(Shl(1, 20))
    ELSE sz

\* size after the check of stage2; the operands follow C's rules: the
\* subtraction involves a uint32_t, so it is done modulo 2^32
ClampSize(entry, sz) ==
    IF sz = W(0) \/ Gt32(sz, Sub32(Sub32(W(Shl(8, 20)), And32(entry, PHYS_MASK)),
                                    W(TOTAL_RESERVED_SIZE)))
    THEN W(Shl(1, 20))
    ELSE sz

\* A write of a PI length register: the engine takes the transfer when it
\* is idle
PiStart(d) == IF PiBusy THEN piActive ELSE d

\* ------------------------------------------------------------------------
\* CPU: stage2 (loader_compat.c)
\* ------------------------------------------------------------------------
\* entrypoint = io_read32(0x10000008); size = io_read32(0x10000010); clamp
S2_ReadHeader ==
    /\ pc = "s2_read_header"
    /\ \E e \in {io_read32(HDR_ENTRY_ADDR)} :
          \E s \in {io_read32(HDR_SIZE_ADDR)} :
              /\ entrypoint' = e
              /\ size' = ClampSize(e, s)
    /\ pc' = "pi_read_poll"
    /\ UNCHANGED <<memsize, spReg, jumpTarget, cacheReset>>
    /\ UNCHANGED <<inputVars, piVars, spVars, siVars, memVars, trace>>

\* PiReadAsync_Poll leaving the loop whatever PI_STATUS says
PiReadAsync_Poll_NoWait ==
    /\ pc = "pi_read_poll"
    /\ pc' = "pi_write_dram"
    /\ trace' = Append(trace, Ev("pi_idle_seen", W(0)))
    /\ UNCHANGED <<entrypoint, size, memsize, spReg, jumpTarget, cacheReset>>
    /\ UNCHANGED <<inputVars, piVars, spVars, siVars, memVars>>

\* pi_read_async: while (*PI_STATUS & (DMA_BUSY | IO_BUSY)) {}
PiReadAsync_Poll ==
    /\ pc = "pi_read_poll"
    /\ ~PiBusy
    /\ pc' = "pi_write_dram"
    /\ trace' = Append(trace, Ev("pi_idle_seen", W(0)))
    /\ UNCHANGED <<entrypoint, size, memsize, spReg, jumpTarget, cacheReset>>
    /\ UNCHANGED <<inputVars, piVars, spVars, siVars, memVars>>

\* *PI_DRAM_ADDR = (uint32_t)dram_addr
PiReadAsync_DramAddr ==
    /\ pc = "pi_write_dram"
    /\ piDramAddr' = entrypoint
    /\ pc' = "pi_write_cart"
    /\ trace' = Append(trace, Ev("PI_DRAM_ADDR", entrypoint))
    /\ UNCHANGED <<entrypoint, size, memsize, spReg, jumpTarget, cacheReset>>
    /\ UNCHANGED <<piCartAddr, piActive, piDone>>
    /\ UNCHANGED <<inputVars, spVars, siVars, memVars>>

\* *PI_CART_ADDR = cart_addr
PiReadAsync_CartAddr ==
    /\ pc = "pi_write_cart"
    /\ piCartAddr' = CART_PAYLOAD
    /\ pc' = "pi_write_len"
    /\ trace' = Append(trace, Ev("PI_CART_ADDR", CART_PAYLOAD))
    /\ UNCHANGED <<entrypoint, size, memsize, spReg, jumpTarget, cacheReset>>
    /\ UNCHANGED <<piDramAddr, piActive, piDone>>
    /\ UNCHANGED <<inputVars, spVars, siVars, memVars>>

\* PiReadAsync_WrLen writing len instead of len-1
PiReadAsync_WrLen_Len ==
    /\ pc = "pi_write_len"
    /\ piActive' = PiStart(Desc("pi_wr", piDramAddr, piCartAddr, size))
    /\ pc' = "pi_wait"
    /\ trace' = Append(trace, Ev("PI_WR_LEN", size))
    /\ UNCHANGED <<entrypoint, size, memsize, spReg, jumpTarget, cacheReset>>
    /\ UNCHANGED <<piDramAddr, piCartAddr, piDone>>
    /\ UNCHANGED <<inputVars, spVars, siVars, memVars>>

\* *PI_WR_LEN = len-1: starts the transfer
PiReadAsync_WrLen ==
    /\ pc = "pi_write_len"
    /\ piActive' = PiStart(Desc("pi_wr", piDramAddr, piCartAddr, Sub32(size, W(1))))
    /\ pc' = "pi_wait"
    /\ trace' = Append(trace, Ev("PI_WR_LEN", Sub32(size, W(1))))
    /\ UNCHANGED <<entrypoint, size, memsize, spReg, jumpTarget, cacheReset>>
    /\ UNCHANGED <<piDramAddr, piCartAddr, piDone>>
    /\ UNCHANGED <<inputVars, spVars, siVars, memVars>>

\* PiWait without the wait
PiWait_NoWait ==
    /\ pc = "pi_wait"
    /\ pc' = "rcp_reset"
    /\ trace' = Append(trace, Ev("pi_wait_done", W(0)))
    /\ UNCHANGED <<entrypoint, size, memsize, spReg, jumpTarget, cacheReset>>
    /\ UNCHANGED <<inputVars, piVars, spVars, siVars, memVars>>

\* pi_wait: while (*PI_STATUS & (DMA_BUSY | IO_BUSY)) {}
PiWait ==
    /\ pc = "pi_wait"
    /\ ~PiBusy
    /\ pc' = "rcp_reset"
    /\ trace' = Append(trace, Ev("pi_wait_done", W(0)))
    /\ UNCHANGED <<entrypoint, size, memsize, spReg, jumpTarget, cacheReset>>
    /\ UNCHANGED <<inputVars, piVars, spVars, siVars, memVars>>

\* rcp_reset()
RcpReset ==
    /\ pc = "rcp_reset"
    /\ pc' = "call_stage3"
    /\ trace' = Append(trace, Ev("rcp_reset", W(0)))
    /\ UNCHANGED <<entrypoint, size, memsize, spReg, jumpTarget, cacheReset>>
    /\ UNCHANGED <<inputVars, piVars, spVars, siVars, memVars>>

\* CallStage3 starting at the memory size read in both variants
CallStage3_SkipNotify ==
    /\ pc = "call_stage3"
    /\ pc' = "read_memsize"
    /\ UNCHANGED <<entrypoint, size, memsize, spReg, jumpTarget, cacheReset>>
    /\ UNCHANGED <<inputVars, piVars, spVars, siVars, memVars, trace>>

\* stage3(entrypoint): the first statement depends on the build variant
CallStage3 ==
    /\ pc = "call_stage3"
    /\ pc' = IF compat THEN "read_memsize" ELSE "pif_terminate_boot"
    /\ UNCHANGED <<entrypoint, size, memsize, spReg, jumpTarget, cacheReset>>
    /\ UNCHANGED <<inputVars, piVars, spVars, siVars, memVars, trace>>

\* ------------------------------------------------------------------------
\* CPU: stage3 (cleanup.c)
\* ------------------------------------------------------------------------
\* The memory size the earlier boot stage left in the boot flags (DMEM
\* word 0) and at the legacy address; the latter lies in RDRAM, so a
\* cartridge load covering it leaves an arbitrary word there.
BootFlagsWords == IF DmemAt(BOOT_FLAGS_ADDR[2] % DMEM_SIZE) = "Flags" THEN {W(ramSize)} ELSE {W(0)}

LegacyWords ==
    IF RamAt(RdramAddr(And32(LEGACY_MEMSIZE_ADDR, PHYS_MASK))) = "Dirty"
    THEN {W(ramSize)}
    ELSE {W(m) : m \in MemSizes \cup {0}}

\* A write of an SP length register: the transfer runs at once when the
\* engine is idle and is queued behind the running one otherwise
SpStartActive(d) == IF SpDmaBusy THEN spActive ELSE d

SpStartPending(d) == IF SpDmaBusy THEN d ELSE spPending

\* si_write (minidragon.h): waits until the SI engine is idle, then
\* writes the word to PIF RAM
SiWriteReady == ~SiBusy

\* si_wait (minidragon.h): waits until the SI engine is idle, then clears
\* the SI interrupt
SiWaitReady == ~SiBusy

SiIntrAfterWait == FALSE

\* pif_terminate_boot(): si_write(0x7FC, 0x8)
PifTerminateBoot ==
    /\ pc = "pif_terminate_boot"
    /\ SiWriteReady
    /\ siBusy' = TRUE
    /\ pifCmd' = Append(pifCmd, <<PIF_CMD_OFFSET, PIF_CMD_BOOT_DONE>>)
    /\ pc' = "read_memsize"
    /\ trace' = Append(trace, Ev("PIF_WRITE", W(PIF_CMD_BOOT_DONE)))
    /\ UNCHANGED <<entrypoint, size, memsize, spReg, jumpTarget, cacheReset>>
    /\ UNCHANGED siIntr
    /\ UNCHANGED <<inputVars, piVars, spVars, memVars>>

\* address stage3 reads the memory size from
MemsizeAddr == IF compat THEN LEGACY_MEMSIZE_ADDR ELSE BOOT_FLAGS_ADDR

\* ReadMemsize going on past the cache reset
ReadMemsize_SkipCache ==
    /\ pc = "read_memsize"
    /\ \E w \in (IF compat THEN LegacyWords ELSE BootFlagsWords) : memsize' = w
    /\ pc' = "sp_poll_full_1"
    /\ trace' = Append(trace, Ev("read_memsize", MemsizeAddr))
    /\ UNCHANGED <<entrypoint, size, spReg, jumpTarget, cacheReset>>
    /\ UNCHANGED <<inputVars, piVars, spVars, siVars, memVars>>

\* int memsize = *(volatile uint32_t*) 0xA4000000 (COMPAT: 0x80000318)
ReadMemsize ==
    /\ pc = "read_memsize"
    /\ \E w \in (IF compat THEN LegacyWords ELSE BootFlagsWords) : memsize' = w
    /\ pc' = "clear_cache"
    /\ trace' = Append(trace, Ev("read_memsize", MemsizeAddr))
    /\ UNCHANGED <<entrypoint, size, spReg, jumpTarget, cacheReset>>
    /\ UNCHANGED <<inputVars, piVars, spVars, siVars, memVars>>

\* cop0_clear_cache()
ClearCache ==
    /\ pc = "clear_cache"
    /\ cacheReset' = TRUE
    /\ pc' = "sp_poll_full_1"
    /\ trace' = Append(trace, Ev("cache_reset", W(0)))
    /\ UNCHANGED <<entrypoint, size, memsize, spReg, jumpTarget>>
    /\ UNCHANGED <<inputVars, piVars, spVars, siVars, memVars>>

\* SpPollFull1 with the loop condition inverted
SpPollFull1_Inverted ==
    /\ pc = "sp_poll_full_1"
    /\ SpDmaFull
    /\ pc' = "sp_rsp_1"
    /\ trace' = Append(trace, Ev("sp_notfull_seen", W(1)))
    /\ UNCHANGED <<entrypoint, size, memsize, spReg, jumpTarget, cacheReset>>
    /\ UNCHANGED <<inputVars, piVars, spVars, siVars, memVars>>

\* while (*SP_DMA_FULL) {}   (before the reserved-region clear)
SpPollFull1 ==
    /\ pc = "sp_poll_full_1"
    /\ ~SpDmaFull
    /\ pc' = "sp_rsp_1"
    /\ trace' = Append(trace, Ev("sp_notfull_seen", W(1)))
    /\ UNCHANGED <<entrypoint, size, memsize, spReg, jumpTarget, cacheReset>>
    /\ UNCHANGED <<inputVars, piVars, spVars, siVars, memVars>>

\* *SP_RSP_ADDR = 0xA4001000
SpRspAddr1 ==
    /\ pc = "sp_rsp_1"
    /\ spRspAddr' = IMEM_ADDR
    /\ pc' = "sp_dram_1"
    /\ trace' = Append(trace, Ev("SP_RSP_ADDR", IMEM_ADDR))
    /\ UNCHANGED <<entrypoint, size, memsize, spReg, jumpTarget, cacheReset>>
    /\ UNCHANGED <<spDramAddr, spActive, spPending, spDone>>
    /\ UNCHANGED <<inputVars, piVars, siVars, memVars>>

\* *SP_DRAM_ADDR = memsize - TOTAL_RESERVED_SIZE
\* SpDramAddr1 without the subtraction of the reserved size
SpDramAddr1_Top ==
    /\ pc = "sp_dram_1"
    /\ spDramAddr' = memsize
    /\ pc' = "sp_wr_len"
    /\ trace' = Append(trace, Ev("SP_DRAM_ADDR", memsize))
    /\ UNCHANGED <<entrypoint, size, memsize, spReg, jumpTarget, cacheReset>>
    /\ UNCHANGED <<spRspAddr, spActive, spPending, spDone>>
    /\ UNCHANGED <<inputVars, piVars, siVars, memVars>>

SpDramAddr1 ==
    /\ pc = "sp_dram_1"
    /\ spDramAddr' = Sub32(memsize, W(TOTAL_RESERVED_SIZE))
    /\ pc' = "sp_wr_len"
    /\ trace' = Append(trace, Ev("SP_DRAM_ADDR", Sub32(memsize, W(TOTAL_RESERVED_SIZE))))
    /\ UNCHANGED <<entrypoint, size, memsize, spReg, jumpTarget, cacheReset>>
    /\ UNCHANGED <<spRspAddr, spActive, spPending, spDone>>
    /\ UNCHANGED <<inputVars, piVars, siVars, memVars>>

\* ReservedLenWord without the row count
ReservedLenWord_NoRows == W(1024 - 1)

\* (((TOTAL_RESERVED_SIZE >> 10) - 1) << 12) | (1024-1)
ReservedLenWord == W(BitOr(Shl(Shr(TOTAL_RESERVED_SIZE, 10) - 1, 12), 1024 - 1))

\* *SP_WR_LEN = ...: starts the reserved-region clear (IMEM -> RDRAM)
SpWrLen ==
    /\ pc = "sp_wr_len"
    /\ spActive' = SpStartActive(Desc("sp_wr", spDramAddr, spRspAddr, ReservedLenWord))
    /\ spPending' = SpStartPending(Desc("sp_wr", spDramAddr, spRspAddr, ReservedLenWord))
    /\ pc' = "sp_poll_full_2"
    /\ trace' = Append(trace, Ev("SP_WR_LEN", ReservedLenWord))
    /\ UNCHANGED <<entrypoint, size, memsize, spReg, jumpTarget, cacheReset>>
    /\ UNCHANGED <<spRspAddr, spDramAddr, spDone>>
    /\ UNCHANGED <<inputVars, piVars, siVars, memVars>>

\* SpPollFull2 without the wait
SpPollFull2_NoWait ==
    /\ pc = "sp_poll_full_2"
    /\ pc' = "sp_dram_2"
    /\ trace' = Append(trace, Ev("sp_notfull_seen", W(2)))
    /\ UNCHANGED <<entrypoint, size, memsize, spReg, jumpTarget, cacheReset>>
    /\ UNCHANGED <<inputVars, piVars, spVars, siVars, memVars>>

\* while (*SP_DMA_FULL) {}   (before the DMEM clear)
SpPollFull2 ==
    /\ pc = "sp_poll_full_2"
    /\ ~SpDmaFull
    /\ pc' = "sp_dram_2"
    /\ trace' = Append(trace, Ev("sp_notfull_seen", W(2)))
    /\ UNCHANGED <<entrypoint, size, memsize, spReg, jumpTarget, cacheReset>>
    /\ UNCHANGED <<inputVars, piVars, spVars, siVars, memVars>>

\* *SP_DRAM_ADDR = 0x00802000
SpDramAddr2 ==
    /\ pc = "sp_dram_2"
    /\ spDramAddr' = EMPTY_RDRAM_ADDR
    /\ pc' = "sp_rsp_2"
    /\ trace' = Append(trace, Ev("SP_DRAM_ADDR", EMPTY_RDRAM_ADDR))
    /\ UNCHANGED <<entrypoint, size, memsize, spReg, jumpTarget, cacheReset>>
    /\ UNCHANGED <<spRspAddr, spActive, spPending, spDone>>
    /\ UNCHANGED <<inputVars, piVars, siVars, memVars>>

\* DmemClearAddr starting at the first byte of DMEM in both variants
DmemClearAddr_Start == DMEM_START

\* *SP_RSP_ADDR = 0xA4000010 (COMPAT: 0xA4000000)
DmemClearAddr == IF compat THEN DMEM_START ELSE DMEM_AFTER_FLAGS

SpRspAddr2 ==
    /\ pc = "sp_rsp_2"
    /\ spRspAddr' = DmemClearAddr
    /\ pc' = "sp_rd_len"
    /\ trace' = Append(trace, Ev("SP_RSP_ADDR", DmemClearAddr))
    /\ UNCHANGED <<entrypoint, size, memsize, spReg, jumpTarget, cacheReset>>
    /\ UNCHANGED <<spDramAddr, spActive, spPending, spDone>>
    /\ UNCHANGED <<inputVars, piVars, siVars, memVars>>

\* 4096-16-1 (COMPAT: 4096-1)
DmemLenWord == IF compat THEN W(4096 - 1) ELSE W(4096 - 16 - 1)

\* SpRdLen going on to the SP_DMA_BUSY wait in both variants
SpRdLen_SkipSiWait ==
    /\ pc = "sp_rd_len"
    /\ spActive' = SpStartActive(Desc("sp_rd", spDramAddr, spRspAddr, DmemLenWord))
    /\ spPending' = SpStartPending(Desc("sp_rd", spDramAddr, spRspAddr, DmemLenWord))
    /\ pc' = "sp_poll_busy"
    /\ trace' = Append(trace, Ev("SP_RD_LEN", DmemLenWord))
    /\ UNCHANGED <<entrypoint, size, memsize, spReg, jumpTarget, cacheReset>>
    /\ UNCHANGED <<spRspAddr, spDramAddr, spDone>>
    /\ UNCHANGED <<inputVars, piVars, siVars, memVars>>

\* *SP_RD_LEN = ...: starts the DMEM clear (RDRAM -> DMEM)
SpRdLen ==
    /\ pc = "sp_rd_len"
    /\ spActive' = SpStartActive(Desc("sp_rd", spDramAddr, spRspAddr, DmemLenWord))
    /\ spPending' = SpStartPending(Desc("sp_rd", spDramAddr, spRspAddr, DmemLenWord))
    /\ pc' = IF compat THEN "sp_poll_busy" ELSE "si_wait"
    /\ trace' = Append(trace, Ev("SP_RD_LEN", DmemLenWord))
    /\ UNCHANGED <<entrypoint, size, memsize, spReg, jumpTarget, cacheReset>>
    /\ UNCHANGED <<spRspAddr, spDramAddr, spDone>>
    /\ UNCHANGED <<inputVars, piVars, siVars, memVars>>

\* si_wait()
SiWait ==
    /\ pc = "si_wait"
    /\ SiWaitReady
    /\ siIntr' = SiIntrAfterWait
    /\ pc' = "sp_poll_busy"
    /\ trace' = Append(trace, Ev("si_wait_done", W(0)))
    /\ UNCHANGED <<entrypoint, size, memsize, spReg, jumpTarget, cacheReset>>
    /\ UNCHANGED <<siBusy, pifCmd>>
    /\ UNCHANGED <<inputVars, piVars, spVars, memVars>>

\* SpPollBusy polling SP_DMA_FULL instead of SP_DMA_BUSY
SpPollBusy_Full ==
    /\ pc = "sp_poll_busy"
    /\ ~SpDmaFull
    /\ pc' = IF compat THEN "jump" ELSE "set_sp"
    /\ trace' = Append(trace, Ev("sp_idle_seen", W(0)))
    /\ UNCHANGED <<entrypoint, size, memsize, spReg, jumpTarget, cacheReset>>
    /\ UNCHANGED <<inputVars, piVars, spVars, siVars, memVars>>

\* SpPollBusy going on to the stack pointer set-up in both variants
SpPollBusy_AlwaysSetSp ==
    /\ pc = "sp_poll_busy"
    /\ ~SpDmaBusy
    /\ pc' = "set_sp"
    /\ trace' = Append(trace, Ev("sp_idle_seen", W(0)))
    /\ UNCHANGED <<entrypoint, size, memsize, spReg, jumpTarget, cacheReset>>
    /\ UNCHANGED <<inputVars, piVars, spVars, siVars, memVars>>

\* while (*SP_DMA_BUSY) {}
SpPollBusy ==
    /\ pc = "sp_poll_busy"
    /\ ~SpDmaBusy
    /\ pc' = IF compat THEN "jump" ELSE "set_sp"
    /\ trace' = Append(trace, Ev("sp_idle_seen", W(0)))
    /\ UNCHANGED <<entrypoint, size, memsize, spReg, jumpTarget, cacheReset>>
    /\ UNCHANGED <<inputVars, piVars, spVars, siVars, memVars>>

\* SetSp with the stack at the very top of RDRAM
SetSp_Top ==
    /\ pc = "set_sp"
    /\ spReg' = Add32(KSEG0, memsize)
    /\ pc' = "jump"
    /\ trace' = Append(trace, Ev("SET_SP", Add32(KSEG0, memsize)))
    /\ UNCHANGED <<entrypoint, size, memsize, jumpTarget, cacheReset>>
    /\ UNCHANGED <<inputVars, piVars, spVars, siVars, memVars>>

\* asm ("move $sp, %0" : : "r" (0x80000000 + memsize - 0x10))
SetSp ==
    /\ pc = "set_sp"
    /\ spReg' = Sub32(Add32(KSEG0, memsize), W(16))
    /\ pc' = "jump"
    /\ trace' = Append(trace, Ev("SET_SP", Sub32(Add32(KSEG0, memsize), W(16))))
    /\ UNCHANGED <<entrypoint, size, memsize, jumpTarget, cacheReset>>
    /\ UNCHANGED <<inputVars, piVars, spVars, siVars, memVars>>

\* goto *(void*)entrypoint
Jump ==
    /\ pc = "jump"
    /\ jumpTarget' = entrypoint
    /\ pc' = "done"
    /\ trace' = Append(trace, Ev("JUMP", entrypoint))
    /\ UNCHANGED <<entrypoint, size, memsize, spReg, cacheReset>>
    /\ UNCHANGED <<inputVars, piVars, spVars, siVars, memVars>>

\* ------------------------------------------------------------------------
\* Specification
\* ------------------------------------------------------------------------
Next ==
    \/ S2_ReadHeader
    \/ PiReadAsync_Poll
    \/ PiReadAsync_DramAddr
    \/ PiReadAsync_CartAddr
    \/ PiReadAsync_WrLen
    \/ PiWait
    \/ RcpReset
    \/ CallStage3
    \/ PifTerminateBoot
    \/ ReadMemsize
    \/ ClearCache
    \/ SpPollFull1
    \/ SpRspAddr1
    \/ SpDramAddr1
    \/ SpWrLen
    \/ SpPollFull2
    \/ SpDramAddr2
    \/ SpRspAddr2
    \/ SpRdLen
    \/ SiWait
    \/ SpPollBusy
    \/ SetSp
    \/ Jump
    \/ PiComplete
    \/ SpComplete
    \/ SiComplete

Spec == Init /\ [][Next]_vars

\* The statements of the core: stage2 followed by stage3
CoreStep ==
    \/ S2_ReadHeader
    \/ PiReadAsync_Poll
    \/ PiReadAsync_DramAddr
    \/ PiReadAsync_CartAddr
    \/ PiReadAsync_WrLen
    \/ PiWait
    \/ RcpReset
    \/ CallStage3
    \/ PifTerminateBoot
    \/ ReadMemsize
    \/ ClearCache
    \/ SpPollFull1
    \/ SpRspAddr1
    \/ SpDramAddr1
    \/ SpWrLen
    \/ SpPollFull2
    \/ SpDramAddr2
    \/ SpRspAddr2
    \/ SpRdLen
    \/ SiWait
    \/ SpPollBusy
    \/ SetSp
    \/ Jump

\* The core keeps executing and every engine completes the transfer it holds
FairSpec ==
    /\ Spec
    /\ WF_vars(CoreStep)
    /\ WF_vars(PiComplete)
    /\ WF_vars(SpComplete)
    /\ WF_vars(SiComplete)

TypeOK ==
    /\ pc \in {"s2_read_header", "pi_read_poll", "pi_write_dram", "pi_write_cart",
               "pi_write_len", "pi_wait", "rcp_reset", "call_stage3",
               "pif_terminate_boot", "read_memsize", "clear_cache",
               "sp_poll_full_1", "sp_rsp_1", "sp_dram_1", "sp_wr_len",
               "sp_poll_full_2", "sp_dram_2", "sp_rsp_2", "sp_rd_len",
               "si_wait", "sp_poll_busy", "set_sp", "jump", "done"}
    /\ entrypoint \in Words
    /\ size \in Words
    /\ memsize \in Words
    /\ spReg \in Words \cup {<<>>}
    /\ jumpTarget \in Words \cup {<<>>}
    /\ piDramAddr \in Words /\ piCartAddr \in Words
    /\ spDramAddr \in Words /\ spRspAddr \in Words
    /\ \A i \in DOMAIN trace : trace[i].val \in Words
    /\ \A i \in DOMAIN ram : ram[i].lo <= ram[i].hi
    /\ \A i \in DOMAIN dmem : dmem[i].lo <= dmem[i].hi /\ dmem[i].hi < DMEM_SIZE

\* ------------------------------------------------------------------------
\* Properties
\* ------------------------------------------------------------------------
\* The transfers the CPU has given to the PI and SP engines, in issue order
Unit(d) == IF d.kind \in {"pi_wr", "sp_wr", "sp_rd"} THEN <<d>> ELSE <<>>

IsCoreDesc(d) == d.kind \in {"pi_wr", "sp_wr", "sp_rd"}

PiIssued == SelectSeq(piDone, IsCoreDesc) \o Unit(piActive)

SpIssued == SelectSeq(spDone, IsCoreDesc) \o Unit(spActive) \o Unit(spPending)

\* entry_address & 0x1FFFFFFF of the header, as a number
HdrLowAddr == (hdrEntry[1] % 8192) * Half + hdrEntry[2]

\* 8MiB - (entry & 0x1FFFFFFF) - reserved size, as a 32-bit unsigned value
\* (two's complement when the difference is negative)
C1_MaxSize ==
    LET room == 8 * 1024 * 1024 - HdrLowAddr - 32 * 1024
    IN  IF room >= 0 THEN W(room)
        ELSE <<Half - 1 - ((-room - 1) \div Half), Half - 1 - ((-room - 1) % Half)>>

C1_Effective ==
    IF hdrSize = W(0) \/ Gt32(hdrSize, C1_MaxSize) THEN W(1024 * 1024) ELSE hdrSize

\* C1: the size stage2 uses for the cartridge transfer is the 1 MiB fallback
\* when the declared size s is 0 or s > max_size, and s itself otherwise,
\* with max_size = 8MiB - (entry & 0x1FFFFFFF) - reserved size evaluated as
\* the code evaluates it (32-bit unsigned); a header with entry 0x80700000
\* and a declared size above max_size gets the fallback.
C1_SizeClamp ==
    /\ pc # "s2_read_header" => size = C1_Effective
    /\ \A i \in DOMAIN PiIssued : Add32(PiIssued[i].len, W(1)) = C1_Effective
    /\ (pc # "s2_read_header" /\ hdrEntry = <<32880, 0>> /\ Gt32(hdrSize, C1_MaxSize))
          => size = W(1024 * 1024)

\* entry 0x80700000 declaring 2 MiB: the transfer in flight is 1 MiB long
C1_Witness ==
    /\ pc = "pi_wait"
    /\ hdrEntry = <<32880, 0>>
    /\ hdrSize = <<32, 0>>
    /\ piActive.kind = "pi_wr"
    /\ PiBytes(piActive.len) = 1024 * 1024

\* C2: the image loaded by stage2 ends below the reserved loader region:
\* (entry & 0x1FFFFFFF) + effective size <= 8MiB - reserved size, for every
\* header, the fallback included.
C2_FitsBelowReserved ==
    pc # "s2_read_header" =>
        /\ size[1] < 256
        /\ HdrLowAddr + size[1] * Half + size[2] <= 8 * 1024 * 1024 - TOTAL_RESERVED_SIZE

\* The reserved-region clear has been completed by the SP engine
ReservedClearDone == \E i \in DOMAIN spDone : spDone[i].kind = "sp_wr"

ScratchClearDone == \E i \in DOMAIN spDone : spDone[i].kind = "sp_rd"

\* C3 as stated: a descriptor is given to an engine only when the engine
\* has reported idle for the previous one; the scratch clear is not given
\* to the SP engine before the reserved-region clear has completed.
C3_SingleOutstanding ==
    [][ /\ (pc = "pi_write_len" /\ pc' # pc) => ~PiBusy
        /\ (pc = "pif_terminate_boot" /\ pc' # pc) => ~SiBusy
        /\ (pc = "sp_rd_len" /\ pc' # pc) => ReservedClearDone ]_vars

\* C3 amended: the PI and SI engines get a new transfer only when idle; the
\* SP engine gets a descriptor only when it is not full, so it never holds
\* more than one running and one queued descriptor and none is overwritten,
\* but the scratch clear may be queued while the reserved-region clear runs.
C3_IssueDiscipline ==
    [][ /\ (pc = "pi_write_len" /\ pc' # pc) => ~PiBusy
        /\ (pc = "pif_terminate_boot" /\ pc' # pc) => ~SiBusy
        /\ (pc \in {"sp_wr_len", "sp_rd_len"} /\ pc' # pc) => ~SpDmaFull ]_vars

\* the scratch clear is queued behind the running reserved-region clear
C3_Witness == spActive.kind = "sp_wr" /\ spPending.kind = "sp_rd"

\* C4: when stage3 sets the stack pointer and when it jumps, the SP engine
\* has no running and no queued transfer and both clears have completed.
C4_SpIdleAtHandoff ==
    pc \in {"set_sp", "jump", "done"} =>
        /\ ~SpDmaBusy
        /\ ~SpDmaFull
        /\ ReservedClearDone
        /\ ScratchClearDone

C4_Witness == pc = "set_sp" /\ ReservedClearDone /\ ScratchClearDone /\ spReg = <<>>

\* C5: at handoff every byte of the reserved loader region
\* [memsize - reserved, memsize) and every byte of DMEM outside the boot
\* flags (normal: 16..4095, COMPAT: 0..4095) holds the clear value,
\* whatever the memory held before.
C5_ClearedAtHandoff ==
    pc = "done" =>
        /\ RamVals(ramSize - TOTAL_RESERVED_SIZE, ramSize - 1) = {"Clear"}
        /\ DmemVals(IF compat THEN 0 ELSE BOOT_FLAGS_SIZE, DMEM_SIZE - 1) = {"Clear"}

\* handoff after the loaded image had reached into the reserved region
C5_Witness ==
    /\ pc = "done"
    /\ \E i \in DOMAIN ram :
          /\ ram[i].val = "Image"
          /\ ram[i].lo < ramSize
          /\ ram[i].hi >= ramSize - TOTAL_RESERVED_SIZE

\* C6: normal variant: at the jump the SI transaction started by the
\* boot-done write has completed and the SI interrupt is not pending.
C6_SiDrainedAtJump ==
    (~compat /\ pc \in {"jump", "done"}) =>
        /\ pifCmd = << <<2044, 8>> >>
        /\ ~siBusy
        /\ ~siIntr

C6_Witness ==
    /\ ~compat
    /\ pc = "jump"
    /\ Len(pifCmd) = 1
    /\ \E i \in DOMAIN trace : trace[i].op = "si_wait_done"

\* Occurrences of a hardware access in the CPU's trace
Count(o) == Cardinality({i \in DOMAIN trace : trace[i].op = o})

Pos(o) == IF Count(o) = 0 THEN 0 ELSE CHOOSE i \in DOMAIN trace :
              trace[i].op = o /\ \A j \in DOMAIN trace : trace[j].op = o => i <= j

C7_Chain == <<"pi_wait_done", "cache_reset", "SP_WR_LEN", "SP_RD_LEN",
              "si_wait_done", "SET_SP", "JUMP">>

\* C7: normal variant: cartridge load completed, cache reset, reserved
\* region clear issued, scratch clear (all but the first 16 bytes) issued,
\* SI drained, stack pointer set, jump: each happens once, in this order.
C7_NormalOrder ==
    ~compat =>
        /\ \A k \in DOMAIN C7_Chain : Count(C7_Chain[k]) <= 1
        /\ \A k \in 2 .. Len(C7_Chain) :
              Count(C7_Chain[k]) = 1 =>
                  /\ Count(C7_Chain[k - 1]) = 1
                  /\ Pos(C7_Chain[k - 1]) < Pos(C7_Chain[k])
        /\ pc = "done" => \A k \in DOMAIN C7_Chain : Count(C7_Chain[k]) = 1
        /\ Count("pi_wait_done") = 1 => (Len(PiIssued) = 1 /\ ~PiBusy)
        /\ \A i \in DOMAIN SpIssued :
              SpIssued[i].kind = "sp_rd" =>
                  /\ SpIssued[i].peer = <<41984, 16>>
                  /\ SpBytes(SpIssued[i].len) = 4096 - 16

C7_Witness == ~compat /\ pc = "done" /\ Count("JUMP") = 1 /\ Len(trace) >= 7

Stage3Pcs ==
    {"pif_terminate_boot", "read_memsize", "clear_cache", "sp_poll_full_1",
     "sp_rsp_1", "sp_dram_1", "sp_wr_len", "sp_poll_full_2", "sp_dram_2",
     "sp_rsp_2", "sp_rd_len", "si_wait", "sp_poll_busy", "set_sp", "jump", "done"}

\* C8: stage2 starts exactly one PI transfer, waits until the PI engine is
\* idle, then resets the RCP, then enters stage3; stage3 never runs while
\* the cartridge transfer is in progress.
C8_StageAOrder ==
    /\ Len(PiIssued) <= 1
    /\ Count("PI_WR_LEN") <= 1 /\ Count("pi_wait_done") <= 1 /\ Count("rcp_reset") <= 1
    /\ Count("pi_wait_done") = 1 =>
          (Count("PI_WR_LEN") = 1 /\ Pos("PI_WR_LEN") < Pos("pi_wait_done"))
    /\ Count("rcp_reset") = 1 =>
          (Count("pi_wait_done") = 1 /\ Pos("pi_wait_done") < Pos("rcp_reset"))
    /\ pc \in Stage3Pcs \cup {"rcp_reset", "call_stage3"} =>
          /\ ~PiBusy
          /\ Len(PiIssued) = 1
          /\ \E i \in DOMAIN piDone : piDone[i].kind = "pi_wr"
    /\ pc \in Stage3Pcs =>
          (Count("rcp_reset") = 1 /\ \A i \in DOMAIN trace :
               trace[i].op \in {"PIF_WRITE", "cache_reset", "SP_WR_LEN", "SP_RD_LEN", "JUMP"}
                   => Pos("rcp_reset") < i)

C8_Witness == pc = "call_stage3" /\ Len(PiIssued) = 1 /\ ~PiBusy

\* C9: the one PI descriptor of stage2 has RAM address = the entry address
\* of the header, cartridge address 0x10001000 and length register =
\* effective size - 1, and is programmed only while the PI engine is not
\* busy; entry 0x80100000 with size 0 gives exactly one transfer of 1 MiB.
C9_PiDescriptor ==
    [][ /\ (pc \in {"pi_write_dram", "pi_write_cart", "pi_write_len"} /\ pc' # pc) => ~PiBusy
        /\ Len(PiIssued') <= 1
        /\ \A i \in DOMAIN PiIssued' :
              /\ PiIssued'[i].ram = hdrEntry
              /\ PiIssued'[i].peer = <<4096, 4096>>
              /\ PiIssued'[i].len = Sub32(C1_Effective, W(1))
        /\ (pc' = "done" /\ hdrEntry = <<32784, 0>> /\ hdrSize = W(0)) =>
              /\ Len(PiIssued') = 1
              /\ piActive'.kind = "none"
              /\ PiBytes(PiIssued'[1].len) = 1 * 1024 * 1024 ]_vars

C9_Witness ==
    /\ pc = "done"
    /\ hdrEntry = <<32784, 0>>
    /\ hdrSize = W(0)
    /\ Len(PiIssued) = 1
    /\ PiBytes(PiIssued[1].len) = 1024 * 1024

\* C10: normal variant: the stack pointer set before the jump is
\* 0x80000000 + memsize - 0x10 for the memory size held by the boot flags,
\* the same value that placed the reserved-region clear; 8 MiB gives
\* 0x807FFFF0.
C10_StackPointer ==
    (~compat /\ pc \in {"jump", "done"}) =>
        /\ spReg = <<32768 + ((ramSize - 16) \div Half), (ramSize - 16) % Half>>
        /\ \E i \in DOMAIN spDone :
              /\ spDone[i].kind = "sp_wr"
              /\ spDone[i].ram = W(ramSize - 32 * 1024)
        /\ ramSize = 8 * 1024 * 1024 => spReg = <<32895, 65520>>

C10_Witness ==
    /\ ~compat
    /\ pc = "jump"
    /\ ramSize = 8 * 1024 * 1024
    /\ spReg = <<32895, 65520>>


\* The value of the first occurrence of an access in the trace
ValAt(o) == trace[Pos(o)].val

C11_Chain == <<"cache_reset", "SP_WR_LEN", "SP_RD_LEN", "sp_idle_seen", "JUMP">>

\* C11: COMPAT variant: stage3 never writes the PIF mailbox, never waits on
\* the SI engine and never sets the stack pointer; it reads the memory size
\* from 0x80000318 and clears all 4096 bytes of DMEM; its events are, in
\* order: cache reset, reserved-region clear, full DMEM clear, wait for SP
\* idle, jump.
C11_CompatVariant ==
    compat =>
        /\ pifCmd = <<>> /\ Count("PIF_WRITE") = 0
        /\ Count("si_wait_done") = 0 /\ pc \notin {"pif_terminate_boot", "si_wait"}
        /\ spReg = <<>> /\ Count("SET_SP") = 0 /\ pc # "set_sp"
        /\ Count("read_memsize") <= 1
        /\ Count("read_memsize") = 1 =>
              (ValAt("read_memsize") = <<32768, 792>> /\ memsize = W(ramSize))
        /\ \A i \in DOMAIN SpIssued :
              SpIssued[i].kind = "sp_rd" =>
                  /\ SpIssued[i].peer = <<41984, 0>>
                  /\ DestOf(SpIssued[i]) = [space |-> "dmem", lo |-> 0, hi |-> 4095]
        /\ \A k \in DOMAIN C11_Chain : Count(C11_Chain[k]) <= 1
        /\ \A k \in 2 .. Len(C11_Chain) :
              Count(C11_Chain[k]) = 1 =>
                  /\ Count(C11_Chain[k - 1]) = 1
                  /\ Pos(C11_Chain[k - 1]) < Pos(C11_Chain[k])
        /\ pc = "done" => \A k \in DOMAIN C11_Chain : Count(C11_Chain[k]) = 1

C11_Witness ==
    /\ compat
    /\ pc = "done"
    /\ Count("JUMP") = 1
    /\ spReg = <<>>
    /\ ScratchClearDone


\* C12: normal variant: the first 16 bytes of DMEM (the boot flags, with the
\* memory size word) hold at handoff what they held at entry to stage2, and
\* no descriptor given to an engine has them in its destination range.
C12_BootFlagsKept ==
    ~compat =>
        /\ DmemVals(0, 15) = {"Flags"}
        /\ BootFlagsWords = {W(ramSize)}
        /\ \A i \in DOMAIN SpIssued :
              ~(DestOf(SpIssued[i]).space = "dmem" /\ DestOf(SpIssued[i]).lo <= 15)
        /\ \A i \in DOMAIN PiIssued : DestOf(PiIssued[i]).space = "ram"

C12_Witness ==
    /\ ~compat
    /\ pc = "done"
    /\ ScratchClearDone
    /\ DmemVals(16, 4095) = {"Clear"}

\* C13: normal variant: the boot-done write (0x8 to PIF RAM offset 0x7FC) is
\* the first hardware access of stage3, before the cache reset and before
\* both clear descriptors; its completion is awaited only after both clear
\* descriptors have been issued, so it is in flight during that work.
C13_NotifyPipelined ==
    ~compat =>
        /\ Count("PIF_WRITE") <= 1
        /\ pc \in Stage3Pcs \ {"pif_terminate_boot"} =>
              /\ Count("PIF_WRITE") = 1
              /\ pifCmd = << <<2044, 8>> >>
              /\ Pos("PIF_WRITE") = Pos("rcp_reset") + 1
        /\ \A o \in {"cache_reset", "SP_WR_LEN", "SP_RD_LEN"} :
              Count(o) >= 1 => (Count("PIF_WRITE") = 1 /\ Pos("PIF_WRITE") < Pos(o))
        /\ pc = "si_wait" => Len(SpIssued) = 2
        /\ Count("si_wait_done") >= 1 =>
              /\ Count("SP_WR_LEN") = 1 /\ Pos("SP_WR_LEN") < Pos("si_wait_done")
              /\ Count("SP_RD_LEN") = 1 /\ Pos("SP_RD_LEN") < Pos("si_wait_done")

\* the notification is still in flight while the reserved-region clear runs
\* and the DMEM clear is about to be issued
C13_Witness ==
    /\ ~compat
    /\ siBusy
    /\ Count("PIF_WRITE") = 1
    /\ cacheReset
    /\ spActive.kind = "sp_wr"
    /\ pc = "sp_rd_len"


\* C14: with engines that complete every transfer they hold, the core
\* eventually jumps; it jumps once, to the word read from cartridge offset
\* 0x10000008 whatever the size check did, and after the jump no core
\* register, engine register, descriptor or memory byte changes.
C14_EventuallyJumps ==
    /\ <>(pc = "done" /\ Count("JUMP") = 1)
    /\ [](Count("JUMP") <= 1)
    /\ [](jumpTarget # <<>> =>
            /\ jumpTarget = io_read32(HDR_ENTRY_ADDR)
            /\ ValAt("JUMP") = hdrEntry)
    /\ [][pc = "done" => UNCHANGED <<cpuVars, piVars, spVars, pifCmd, memVars, trace>>]_vars

C14_Witness ==
    /\ pc = "done"
    /\ Count("JUMP") = 1
    /\ jumpTarget = hdrEntry
    /\ size # hdrSize
    /\ ~siBusy


\* The core is in a poll loop whose engine reports busy
Blocked ==
    \/ pc \in {"pi_read_poll", "pi_wait"} /\ PiBusy
    \/ pc \in {"sp_poll_full_1", "sp_poll_full_2"} /\ SpDmaFull
    \/ pc = "sp_poll_busy" /\ SpDmaBusy
    \/ pc \in {"pif_terminate_boot", "si_wait"} /\ SiBusy

\* C15: while the engine the core polls reports busy, no step moves the core
\* out of the loop, writes a register or issues a descriptor; the only steps
\* are engine completions, so while the flag stays set the core stays in the
\* loop, and no state in a poll loop has jumped.
C15_HangInPoll ==
    /\ [](Blocked => (jumpTarget = <<>> /\ Count("JUMP") = 0 /\ pc # "done"))
    /\ [][Blocked =>
            /\ UNCHANGED <<cpuVars, trace, pifCmd>>
            /\ UNCHANGED <<piDramAddr, piCartAddr, spRspAddr, spDramAddr>>
            /\ PiIssued' = PiIssued
            /\ SpIssued' = SpIssued
            /\ (PiComplete \/ SpComplete \/ SiComplete)]_vars

C15_Witness ==
    /\ pc = "pi_wait"
    /\ PiBusy
    /\ piActive.kind = "pi_wr"
    /\ Count("PI_WR_LEN") = 1


\* C17: the reserved-region clear has RAM destination memsize - 32 KiB and
\* the length word ((32 - 1) << 12) | 1023, which the engine decodes as 32
\* rows of 1024 bytes = 32 KiB, so it writes exactly
\* [memsize - 32 KiB, memsize): nothing above the top of RAM, nothing below
\* the region.
C17_ReservedDescriptor ==
    /\ pc \in {"sp_wr_len"} => spDramAddr = W(ramSize - 32 * 1024)
    /\ \A i \in DOMAIN SpIssued : SpIssued[i].kind = "sp_wr" =>
          /\ SpIssued[i].ram = W(ramSize - 32 * 1024)
          /\ SpIssued[i].len = W(31 * 4096 + 1023)
          /\ SpRows(SpIssued[i].len) = 32
          /\ SpRowBytes(SpIssued[i].len) = 1024
          /\ SpBytes(SpIssued[i].len) = 32 * 1024
          /\ DestOf(SpIssued[i]) =
                [space |-> "ram", lo |-> ramSize - 32 * 1024, hi |-> ramSize - 1]
    /\ ReservedClearDone =>
          /\ RamVals(ramSize - 32 * 1024, ramSize - 1) = {"Clear"}
          /\ \A j \in DOMAIN ram :
                ram[j].val = "Clear" => (ram[j].lo >= ramSize - 32 * 1024 /\ ram[j].hi < ramSize)

C17_Witness ==
    /\ ramSize = 4 * 1024 * 1024
    /\ ReservedClearDone
    /\ RamVals(ramSize - 32 * 1024, ramSize - 1) = {"Clear"}


\* The two clear descriptors as stage3 writes them, in issue order
C18_Expected ==
    << [kind |-> "sp_wr", ram |-> W(ramSize - 32 * 1024), peer |-> <<41984, 4096>>,
        len |-> W(31 * 4096 + 1023)],
       [kind |-> "sp_rd", ram |-> <<128, 8192>>,
        peer |-> IF compat THEN <<41984, 0>> ELSE <<41984, 16>>,
        len |-> IF compat THEN W(4095) ELSE W(4079)] >>

\* C18: stage3 writes an SP length register only in a state where
\* SP_DMA_FULL is clear; each such write adds one descriptor to those the
\* engine holds and none is ever removed except by being executed; the
\* transfers the engine executes for stage3 are the reserved-region clear and
\* then the DMEM clear, each with the addresses written for it, and at
\* handoff exactly these two have been executed.
C18_NoClearLost ==
    /\ [][ /\ (pc \in {"sp_wr_len", "sp_rd_len"} /\ pc' # pc) =>
                /\ ~SpDmaFull
                /\ Len(SpIssued') = Len(SpIssued) + 1
                /\ SpIssued'[Len(SpIssued')].ram = spDramAddr
                /\ SpIssued'[Len(SpIssued')].peer = spRspAddr
           /\ SubSeq(SpIssued', 1, Len(SpIssued)) = SpIssued ]_vars
    /\ [](/\ Len(SpIssued) <= 2
          /\ SpIssued = SubSeq(C18_Expected, 1, Len(SpIssued))
          /\ SelectSeq(spDone, IsCoreDesc) =
                SubSeq(C18_Expected, 1, Len(SelectSeq(spDone, IsCoreDesc))))
    /\ [](pc \in {"si_wait", "sp_poll_busy", "set_sp", "jump", "done"} =>
              SpIssued = C18_Expected)
    /\ [](pc = "done" => SelectSeq(spDone, IsCoreDesc) = C18_Expected)

\* the engine holds both clears at once, after an earlier transfer: the
\* reserved-region clear running, the DMEM clear pending
C18_Witness ==
    /\ spActive = C18_Expected[1]
    /\ spPending = C18_Expected[2]
    /\ Len(spDone) = 1
    /\ spDone[1].kind = "prior"


\* C19: when entry & 0x1FFFFFFF is above 8 MiB - 32 KiB the bound
\* 8MiB - (entry & 0x1FFFFFFF) - 32 KiB wraps modulo 2^32 to a value of at
\* least 2^31, and a declared size that is not 0 and not above the wrapped
\* bound is used for the cartridge transfer as it is, not the 1 MiB fallback.
C19_UnsignedWrap ==
    (/\ HdrLowAddr > 8 * 1024 * 1024 - 32 * 1024
     /\ hdrSize # <<0, 0>>) =>
        /\ Sub32(Sub32(<<128, 0>>, <<hdrEntry[1] % 8192, hdrEntry[2]>>), <<0, 32768>>)[1] >= 32768
        /\ ~Gt32(hdrSize, Sub32(Sub32(<<128, 0>>, <<hdrEntry[1] % 8192, hdrEntry[2]>>),
                                <<0, 32768>>)) =>
              /\ pc # "s2_read_header" => size = hdrSize
              /\ \A i \in DOMAIN PiIssued :
                    /\ PiBytes(PiIssued[i].len) = hdrSize[1] * Half + hdrSize[2]
                    /\ PiIssued[i].ram = hdrEntry

C19_Witness ==
    /\ hdrEntry = <<32895, 49152>>
    /\ hdrSize = <<32, 0>>
    /\ pc = "pi_wait"
    /\ size = <<32, 0>>
    /\ Len(PiIssued) = 1
    /\ PiBytes(PiIssued[1].len) = 2 * 1024 * 1024


\* The RDRAM range the DMEM clear reads its zeroes from
ScratchSourceLo == RdramAddr(EMPTY_RDRAM_ADDR)

ScratchSourceHi == RdramAddr(EMPTY_RDRAM_ADDR) + SpBytes(DmemLenWord) - 1

\* C20: no descriptor the core issues (cartridge load, reserved-region
\* clear, DMEM clear) has in its destination range a byte of IMEM, which the
\* reserved-region clear reads, or a byte of the RDRAM range at 0x00802000,
\* which the DMEM clear reads.
C20_ZeroSourcesClean ==
    \A d \in {PiIssued[i] : i \in DOMAIN PiIssued} \cup {SpIssued[i] : i \in DOMAIN SpIssued} :
        /\ DestOf(d).space # "imem"
        /\ DestOf(d).space = "ram" =>
              (DestOf(d).hi < ScratchSourceLo \/ DestOf(d).lo > ScratchSourceHi)


\* The trace events that are register writes of the core
C21_WriteOps ==
    {"PI_DRAM_ADDR", "PI_CART_ADDR", "PI_WR_LEN", "PIF_WRITE", "SP_RSP_ADDR",
     "SP_DRAM_ADDR", "SP_WR_LEN", "SP_RD_LEN", "SET_SP", "JUMP"}

C21_IsWrite(e) == e.op \in C21_WriteOps

\* The register writes of a whole run, from the variant, the header and the
\* memory size alone
C21_Writes ==
    << [op |-> "PI_DRAM_ADDR", val |-> hdrEntry],
       [op |-> "PI_CART_ADDR", val |-> <<4096, 4096>>],
       [op |-> "PI_WR_LEN", val |-> Sub32(C1_Effective, <<0, 1>>)] >>
    \o (IF compat THEN <<>> ELSE << [op |-> "PIF_WRITE", val |-> <<0, 8>>] >>)
    \o << [op |-> "SP_RSP_ADDR", val |-> <<41984, 4096>>],
          [op |-> "SP_DRAM_ADDR", val |-> W(ramSize - 32 * 1024)],
          [op |-> "SP_WR_LEN", val |-> <<1, 62463>>],
          [op |-> "SP_DRAM_ADDR", val |-> <<128, 8192>>],
          [op |-> "SP_RSP_ADDR", val |-> IF compat THEN <<41984, 0>> ELSE <<41984, 16>>],
          [op |-> "SP_RD_LEN", val |-> IF compat THEN <<0, 4095>> ELSE <<0, 4079>>] >>
    \o (IF compat THEN <<>>
        ELSE << [op |-> "SET_SP",
                 val |-> <<32768 + ((ramSize - 16) \div Half), (ramSize - 16) % Half>>] >>)
    \o << [op |-> "JUMP", val |-> hdrEntry] >>

\* The writes RDRAM and DMEM have received at handoff, from the same inputs
C21_Ram ==
    << [lo |-> (hdrEntry[1] % 256) * Half + hdrEntry[2],
        hi |-> (hdrEntry[1] % 256) * Half + hdrEntry[2]
                  + (C1_Effective[1] % 256) * Half + C1_Effective[2] - 1,
        val |-> "Image"],
       [lo |-> ramSize - 32 * 1024, hi |-> ramSize - 1, val |-> "Clear"] >>

C21_Dmem == << [lo |-> IF compat THEN 0 ELSE 16, hi |-> 4095, val |-> "Clear"] >>

\* C21: the register writes the core has performed are, in every reachable
\* state, a prefix of one sequence fixed by the variant, the header and the
\* memory size; at handoff the whole sequence has been written and RDRAM,
\* DMEM, the stack pointer, the mailbox and the jump target have the values
\* fixed by those inputs. No engine state appears in these values, so two
\* runs on the same inputs differ only in the time spent in the poll loops.
C21_TimingIndependent ==
    /\ SelectSeq(trace, C21_IsWrite) =
          SubSeq(C21_Writes, 1, Len(SelectSeq(trace, C21_IsWrite)))
    /\ pc = "done" =>
          /\ SelectSeq(trace, C21_IsWrite) = C21_Writes
          /\ ram = C21_Ram
          /\ dmem = C21_Dmem
          /\ jumpTarget = hdrEntry
          /\ spReg = (IF compat THEN <<>>
                      ELSE <<32768 + ((ramSize - 16) \div Half), (ramSize - 16) % Half>>)
          /\ pifCmd = (IF compat THEN <<>> ELSE << <<2044, 8>> >>)

\* a handoff reached with an earlier SP transfer having run first and the SI
\* engine still busy: memory and writes are those of every other run
C21_Witness ==
    /\ compat
    /\ pc = "done"
    /\ siBusy
    /\ Len(spDone) = 3
    /\ spDone[1].kind = "prior"
    /\ ram = C21_Ram
    /\ dmem = C21_Dmem

====
